---- MODULE Spec2Model ----
(***************************************************************************)
(* The inventory service of backend/server.py: route handlers over two     *)
(* document collections, residents and items.  Every storage call of a     *)
(* handler (find_one, insert_one, update_one, delete_one, delete_many) is  *)
(* one atomic step on the collection; a handler yields at each await, so   *)
(* the steps of concurrently handled requests interleave.  An action is    *)
(* one storage call together with the handler code that runs after it up   *)
(* to the next await or to the response.                                   *)
(***************************************************************************)
EXTENDS Integers, Sequences, FiniteSets, TLC

\* ------------------------------------------------------------------ bounds

\* Number of requests the server handles at the same time.
NProcs == 2
\* Residents ever created (uuid4 ids are modelled as 1, 2, ...).
MaxResidents == 1
\* Items ever created.
MaxItems == 2
\* Requests other than creations handled in one behaviour.
MaxReqs == 2

Procs == 1..NProcs
ResidentIds == 1..MaxResidents
\* The resident ids requests name: one more than are ever created, an id of no resident.
RequestedResidentIds == 1..(MaxResidents + 1)
ItemIds == 1..MaxItems

\* ------------------------------------------------------------------ inputs

\* ResidentCreate and ResidentUpdate bodies.
CreateNames == {"A"}
UpdateNames == {"B"}
\* ItemCreate bodies: residentId is not checked against the residents.
CreateQuantities == {0, 1}
\* PurchaseCreate bodies (qty is an unvalidated int).
PurchaseInputs == {[qty |-> 1, price |-> 100], [qty |-> -1, price |-> 0]}
\* UsageCreate bodies.
UsageQtys == {-1, 1}
\* adjust-quantity's delta query parameter.
Deltas == {-2, 1}

\* Optional[T]: None is <<>>, a value v is <<v>>.
None == <<>>
Some(v) == <<v>>

\* ItemUpdate bodies: every field is Optional and defaults to None.
NoUpdate == [name |-> None, quantity |-> None, used |-> None, min |-> None, source |-> None]
ItemUpdates ==
    { NoUpdate,
      [NoUpdate EXCEPT !.name = Some("b"), !.min = Some(1)],
      [NoUpdate EXCEPT !.quantity = Some(0), !.used = Some(1)],
      [name |-> Some("b"), quantity |-> Some(0), used |-> Some(0),
       min |-> Some(0), source |-> Some("gift")] }

\* datetime.now().strftime("%Y-%m-%d")
Today == "today"

VARIABLES
    residents,  \* db.residents: resident id -> document
    items,      \* db.items: item id -> document
    nextRid,    \* residents created so far (uuid4: the next id is fresh)
    nextIid,    \* items created so far
    h,          \* the requests being handled: each slot's position and locals
    last,       \* the response produced last, with the request it answers
    nreq,       \* requests started, creations apart
    serial,     \* TRUE: the client waits for each response before its next request
    created,    \* item id -> the document create_item inserted, and its request number
    sent        \* item id -> the requests addressed to the item, in order of arrival

vars == <<residents, items, nextRid, nextIid, h, last, nreq, serial, created, sent>>

\* ------------------------------------------------------------------ helpers

Max(a, b) == IF a >= b THEN a ELSE b

\* collection.find_one({"id": id}): the document or None
FindOne(coll, id) == IF id \in DOMAIN coll THEN Some(coll[id]) ELSE None

\* collection.insert_one(doc)
InsertOne(coll, id, doc) == coll @@ (id :> doc)

\* collection.delete_one / delete_many: the documents left
Without(coll, ids) == [i \in DOMAIN coll \ ids |-> coll[i]]

\* A slot that runs no request.
Idle == [n |-> 0, op |-> "none", pc |-> "idle", id |-> 0, arg |-> None, item |-> None]

InFlight(p) == h[p].pc # "idle"

\* Requests received so far; the next one is number Received + 1.
Received == nreq + nextRid + nextIid

\* A request is taken by the first free slot; a serial client has none in flight.
CanStart(p) ==
    /\ ~InFlight(p)
    /\ \A q \in Procs : q < p => InFlight(q)
    /\ serial => \A q \in Procs : ~InFlight(q)

CanStartCounted(p) == CanStart(p) /\ nreq < MaxReqs

\* The response: return resp (200), or raise HTTPException(status_code, detail).
Response(n, op, id, arg, item, status, resp) ==
    [n |-> n, op |-> op, id |-> id, arg |-> arg, item |-> item,
     status |-> status, resp |-> resp]

\* The response of the request in slot p.
Reply(p, status, resp) ==
    Response(h[p].n, h[p].op, h[p].id, h[p].arg, h[p].item, status, resp)

\* The slot suspended at its next await.
At(op, pc, id, arg, item) ==
    [n |-> Received + 1, op |-> op, pc |-> pc, id |-> id, arg |-> arg, item |-> item]

Log(id, op, arg) == [sent EXCEPT ![id] = Append(@, [op |-> op, arg |-> arg])]

\* The first await of a handler that starts with find_one on items: 404 when the
\* item is absent, else the handler goes on to its update_one.
ItemFind(p, op, id, arg) ==
    LET item == FindOne(items, id)
    IN IF item = None
       THEN /\ last' = Response(Received + 1, op, id, arg, item, 404, "Item not found")
            /\ UNCHANGED <<h, sent>>
       ELSE /\ h' = [h EXCEPT ![p] = At(op, "update", id, arg, item)]
            /\ sent' = Log(id, op, arg)
            /\ last' = last

\* The final await of an item handler: find_one again, then Item(**updated_item),
\* which raises on None: an unhandled error.
ItemReread(p) ==
    /\ h[p].op # "update_resident" /\ h[p].pc = "reread"
    /\ last' = IF h[p].id \in DOMAIN items
               THEN Reply(p, 200, items[h[p].id])
               ELSE Reply(p, 500, "Internal Server Error")
    /\ h' = [h EXCEPT ![p] = Idle]
    /\ UNCHANGED <<residents, items, nextRid, nextIid, nreq, serial, created, sent>>

\* update_one({"id": id}, update): the matching document changed, if there is one.
UpdateOne(coll, id, doc) == IF id \in DOMAIN coll THEN [coll EXCEPT ![id] = doc] ELSE coll

\* ------------------------------------------------------------------ residents

\* Resident(**resident_dict)
NewResident(id, name) == [id |-> id, name |-> name]

create_resident(p, name) ==
    /\ CanStart(p)
    /\ nextRid < MaxResidents
    /\ nextRid' = nextRid + 1
    /\ residents' = InsertOne(residents, nextRid + 1, NewResident(nextRid + 1, name))
    /\ last' = Response(Received + 1, "create_resident", nextRid + 1, [name |-> name],
                        None, 200, NewResident(nextRid + 1, name))
    /\ UNCHANGED <<items, nextIid, h, nreq, serial, created, sent>>

update_resident_find(p, id, name) ==
    /\ CanStartCounted(p)
    /\ nreq' = nreq + 1
    /\ LET resident == FindOne(residents, id)
       IN IF resident = None
          THEN /\ last' = Response(Received + 1, "update_resident", id, [name |-> name],
                                   resident, 404, "Resident not found")
               /\ h' = h
          ELSE /\ h' = [h EXCEPT ![p] = At("update_resident", "update", id,
                                           [name |-> name], resident)]
               /\ last' = last
    /\ UNCHANGED <<residents, items, nextRid, nextIid, serial, created, sent>>

update_resident_update(p) ==
    /\ h[p].op = "update_resident" /\ h[p].pc = "update"
    /\ residents' = IF h[p].id \in DOMAIN residents
                    THEN [residents EXCEPT ![h[p].id].name = h[p].arg.name]
                    ELSE residents
    /\ h' = [h EXCEPT ![p].pc = "reread"]
    /\ UNCHANGED <<items, nextRid, nextIid, last, nreq, serial, created, sent>>

update_resident_reread(p) ==
    /\ h[p].op = "update_resident" /\ h[p].pc = "reread"
    /\ last' = IF h[p].id \in DOMAIN residents
               THEN Reply(p, 200, residents[h[p].id])
               ELSE Reply(p, 500, "Internal Server Error")
    /\ h' = [h EXCEPT ![p] = Idle]
    /\ UNCHANGED <<residents, items, nextRid, nextIid, nreq, serial, created, sent>>

\* The 404 check left out: delete_one's result is ignored.
NothingDeletedUnchecked(coll, id) == FALSE

\* result.deleted_count == 0
NothingDeleted(coll, id) == id \notin DOMAIN coll

\* The cascade filtering on the wrong field: delete_many({"id": resident_id}).
ItemsOfById(rid) == {i \in DOMAIN items : items[i].id = rid}

\* The items delete_many({"residentId": resident_id}) deletes.
ItemsOf(rid) == {i \in DOMAIN items : items[i].residentId = rid}

delete_resident_one(p, id) ==
    /\ CanStartCounted(p)
    /\ nreq' = nreq + 1
    /\ IF NothingDeleted(residents, id)
       THEN /\ last' = Response(Received + 1, "delete_resident", id, None, None, 404,
                                "Resident not found")
            /\ UNCHANGED <<residents, h>>
       ELSE /\ residents' = Without(residents, {id})
            /\ h' = [h EXCEPT ![p] = At("delete_resident", "cascade", id, None, None)]
            /\ last' = last
    /\ UNCHANGED <<items, nextRid, nextIid, serial, created, sent>>

delete_resident_many(p) ==
    /\ h[p].op = "delete_resident" /\ h[p].pc = "cascade"
    /\ items' = Without(items, ItemsOf(h[p].id))
    /\ last' = Reply(p, 200, "Resident and associated items deleted successfully")
    /\ h' = [h EXCEPT ![p] = Idle]
    /\ UNCHANGED <<residents, nextRid, nextIid, nreq, serial, created, sent>>

\* ------------------------------------------------------------------ items

\* Item(**item_dict): purchases and usageHistory start empty.
NewItem(id, c) ==
    [id |-> id, residentId |-> c.residentId, name |-> c.name, quantity |-> c.quantity,
     used |-> c.used, min |-> c.min, source |-> c.source,
     purchases |-> <<>>, usageHistory |-> <<>>]

ItemCreates ==
    { [residentId |-> r, name |-> "a", quantity |-> q, used |-> 0, min |-> 0,
       source |-> "purchase"] : r \in RequestedResidentIds, q \in CreateQuantities }

create_item(p, c) ==
    /\ CanStart(p)
    /\ nextIid < MaxItems
    /\ nextIid' = nextIid + 1
    /\ items' = InsertOne(items, nextIid + 1, NewItem(nextIid + 1, c))
    /\ created' = InsertOne(created, nextIid + 1,
                           [n |-> Received + 1, doc |-> NewItem(nextIid + 1, c)])
    /\ sent' = InsertOne(sent, nextIid + 1, <<>>)
    /\ last' = Response(Received + 1, "create_item", nextIid + 1, c, None, 200,
                        NewItem(nextIid + 1, c))
    /\ UNCHANGED <<residents, nextRid, h, nreq, serial>>

\* update_dict = {k: v for k, v in item_update.dict().items() if v is not None}
Provided(o) == o # None

\* The filter written "if v": a provided 0 is dropped like a None.
ApplySetTruthy(doc, upd) ==
    [doc EXCEPT !.name = IF upd.name # None THEN upd.name[1] ELSE @,
                !.quantity = IF upd.quantity # None /\ upd.quantity[1] # 0
                             THEN upd.quantity[1] ELSE @,
                !.used = IF upd.used # None /\ upd.used[1] # 0 THEN upd.used[1] ELSE @,
                !.min = IF upd.min # None /\ upd.min[1] # 0 THEN upd.min[1] ELSE @,
                !.source = IF upd.source # None THEN upd.source[1] ELSE @]

\* {"$set": update_dict}
ApplySet(doc, upd) ==
    [doc EXCEPT !.name = IF Provided(upd.name) THEN upd.name[1] ELSE @,
                !.quantity = IF Provided(upd.quantity) THEN upd.quantity[1] ELSE @,
                !.used = IF Provided(upd.used) THEN upd.used[1] ELSE @,
                !.min = IF Provided(upd.min) THEN upd.min[1] ELSE @,
                !.source = IF Provided(upd.source) THEN upd.source[1] ELSE @]

update_item_find(p, id, upd) ==
    /\ CanStartCounted(p)
    /\ nreq' = nreq + 1
    /\ ItemFind(p, "update_item", id, upd)
    /\ UNCHANGED <<residents, items, nextRid, nextIid, serial, created>>

\* An empty update_dict is sent as {"$set": {}}, which changes nothing.
update_item_update(p) ==
    /\ h[p].op = "update_item" /\ h[p].pc = "update"
    /\ items' = IF h[p].id \in DOMAIN items
                THEN UpdateOne(items, h[p].id, ApplySet(items[h[p].id], h[p].arg))
                ELSE items
    /\ h' = [h EXCEPT ![p].pc = "reread"]
    /\ UNCHANGED <<residents, nextRid, nextIid, last, nreq, serial, created, sent>>

\* deleted_count not looked at: every delete is answered with the confirmation.
delete_item_unchecked(p, id) ==
    /\ CanStartCounted(p)
    /\ nreq' = nreq + 1
    /\ items' = Without(items, {id})
    /\ sent' = IF id \in DOMAIN items THEN Log(id, "delete_item", None) ELSE sent
    /\ last' = Response(Received + 1, "delete_item", id, None, None, 200,
                        "Item deleted successfully")
    /\ UNCHANGED <<residents, nextRid, nextIid, h, serial, created>>

\* delete_item is one storage call, delete_one, and its response.
delete_item(p, id) ==
    /\ CanStartCounted(p)
    /\ nreq' = nreq + 1
    /\ IF NothingDeleted(items, id)
       THEN /\ last' = Response(Received + 1, "delete_item", id, None, None, 404,
                                "Item not found")
            /\ UNCHANGED <<items, sent>>
       ELSE /\ items' = Without(items, {id})
            /\ sent' = Log(id, "delete_item", None)
            /\ last' = Response(Received + 1, "delete_item", id, None, None, 200,
                                "Item deleted successfully")
    /\ UNCHANGED <<residents, nextRid, nextIid, h, serial, created>>

\* ------------------------------------------------------------------ purchase

\* The price not passed on: Purchase's default price is 0.0.
NewPurchaseDefaultPrice(b) == [date |-> Today, qty |-> b.qty, price |-> 0]

\* Purchase(date=today, qty=purchase.qty, price=purchase.price)
NewPurchase(b) == [date |-> Today, qty |-> b.qty, price |-> b.price]

\* The $inc left out: the record is pushed, the quantity stays.
ApplyPurchasePushOnly(doc, b) ==
    [doc EXCEPT !.purchases = Append(@, [date |-> Today, qty |-> b.qty, price |-> b.price])]

\* The record put in front: the list rewritten instead of pushed to.
ApplyPurchasePrepend(doc, b) ==
    [doc EXCEPT !.quantity = @ + b.qty,
                !.purchases = <<[date |-> Today, qty |-> b.qty, price |-> b.price]>> \o @]

\* {"$inc": {"quantity": purchase.qty}, "$push": {"purchases": new_purchase.dict()}}
ApplyPurchase(doc, b) ==
    [doc EXCEPT !.quantity = @ + b.qty, !.purchases = Append(@, NewPurchase(b))]

add_purchase_find(p, id, b) ==
    /\ CanStartCounted(p)
    /\ nreq' = nreq + 1
    /\ ItemFind(p, "add_purchase", id, b)
    /\ UNCHANGED <<residents, items, nextRid, nextIid, serial, created>>

add_purchase_update(p) ==
    /\ h[p].op = "add_purchase" /\ h[p].pc = "update"
    /\ items' = IF h[p].id \in DOMAIN items
                THEN UpdateOne(items, h[p].id, ApplyPurchase(items[h[p].id], h[p].arg))
                ELSE items
    /\ h' = [h EXCEPT ![p].pc = "reread"]
    /\ UNCHANGED <<residents, nextRid, nextIid, last, nreq, serial, created, sent>>

\* ------------------------------------------------------------------ usage

\* The sufficiency check off by one.
InsufficientStockOffByOne(item, qty) == item.quantity + 1 < qty

\* item["quantity"] < usage.qty
InsufficientStock(item, qty) == item.quantity < qty

\* UsageHistory(date=today, qty=usage.qty)
NewUsage(qty) == [date |-> Today, qty |-> qty]

\* The $inc of used left out.
ApplyUsageQuantityOnly(doc, qty) ==
    [doc EXCEPT !.quantity = @ - qty, !.usageHistory = Append(@, [date |-> Today, qty |-> qty])]

\* {"$inc": {"quantity": -qty, "used": qty}, "$push": {"usageHistory": new_usage}}
ApplyUsage(doc, qty) ==
    [doc EXCEPT !.quantity = @ - qty, !.used = @ + qty,
                !.usageHistory = Append(@, NewUsage(qty))]

\* add_usage up to its update_one: find_one, the 404 and the 400.
add_usage_find(p, id, qty) ==
    /\ CanStartCounted(p)
    /\ nreq' = nreq + 1
    /\ LET item == FindOne(items, id)
           arg == [qty |-> qty]
       IN IF item # None /\ InsufficientStock(item[1], qty)
          THEN /\ last' = Response(Received + 1, "add_usage", id, arg, item, 400,
                                   "Not enough quantity in stock")
               /\ sent' = Log(id, "add_usage", arg)
               /\ h' = h
          ELSE ItemFind(p, "add_usage", id, arg)
    /\ UNCHANGED <<residents, items, nextRid, nextIid, serial, created>>

add_usage_update(p) ==
    /\ h[p].op = "add_usage" /\ h[p].pc = "update"
    /\ items' = IF h[p].id \in DOMAIN items
                THEN UpdateOne(items, h[p].id, ApplyUsage(items[h[p].id], h[p].arg.qty))
                ELSE items
    /\ h' = [h EXCEPT ![p].pc = "reread"]
    /\ UNCHANGED <<residents, nextRid, nextIid, last, nreq, serial, created, sent>>

\* ------------------------------------------------------------------ adjustment

\* The clamp left out.
NewQuantityUnclamped(item, delta) == item.quantity + delta

\* new_quantity = max(0, item["quantity"] + delta)
NewQuantity(item, delta) == Max(0, item.quantity + delta)

\* {"$set": {"quantity": new_quantity}}
ApplyAdjust(doc, new_quantity) == [doc EXCEPT !.quantity = new_quantity]

adjust_quantity_find(p, id, delta) ==
    /\ CanStartCounted(p)
    /\ nreq' = nreq + 1
    /\ ItemFind(p, "adjust_quantity", id, [delta |-> delta])
    /\ UNCHANGED <<residents, items, nextRid, nextIid, serial, created>>

adjust_quantity_update(p) ==
    /\ h[p].op = "adjust_quantity" /\ h[p].pc = "update"
    /\ items' = IF h[p].id \in DOMAIN items
                THEN UpdateOne(items, h[p].id,
                               ApplyAdjust(items[h[p].id],
                                           NewQuantity(h[p].item[1], h[p].arg.delta)))
                ELSE items
    /\ h' = [h EXCEPT ![p].pc = "reread"]
    /\ UNCHANGED <<residents, nextRid, nextIid, last, nreq, serial, created, sent>>

\* ------------------------------------------------------------------ system

\* No response yet.
NoResponse == Response(0, "none", 0, None, None, 0, None)

InitDb ==
    /\ residents = <<>>
    /\ items = <<>>
    /\ nextRid = 0
    /\ nextIid = 0
    /\ h = [p \in Procs |-> Idle]
    /\ last = NoResponse
    /\ nreq = 0
    /\ created = <<>>
    /\ sent = <<>>

Init == InitDb /\ serial = FALSE

InitSeq == InitDb /\ serial = TRUE

Next ==
    \E p \in Procs :
        \/ \E name \in CreateNames : create_resident(p, name)
        \/ \E id \in RequestedResidentIds, name \in UpdateNames : update_resident_find(p, id, name)
        \/ update_resident_update(p)
        \/ update_resident_reread(p)
        \/ \E id \in RequestedResidentIds : delete_resident_one(p, id)
        \/ delete_resident_many(p)
        \/ \E c \in ItemCreates : create_item(p, c)
        \/ \E id \in ItemIds, upd \in ItemUpdates : update_item_find(p, id, upd)
        \/ update_item_update(p)
        \/ \E id \in ItemIds : delete_item(p, id)
        \/ \E id \in ItemIds, b \in PurchaseInputs : add_purchase_find(p, id, b)
        \/ add_purchase_update(p)
        \/ \E id \in ItemIds, qty \in UsageQtys : add_usage_find(p, id, qty)
        \/ add_usage_update(p)
        \/ \E id \in ItemIds, delta \in Deltas : adjust_quantity_find(p, id, delta)
        \/ adjust_quantity_update(p)
        \/ ItemReread(p)

\* Requests handled concurrently.
Spec == Init /\ [][Next]_vars

\* Requests sent one at a time, each after the previous response.
SpecSeq == InitSeq /\ [][Next]_vars

\* ------------------------------------------------------------------ requests

\* This step receives request number Received + 1: op addressed to id.  The request
\* is then either suspended in a slot or already answered.
NewRequest(op, id) ==
    \/ last'.n = Received + 1 /\ last'.op = op /\ last'.id = id
    \/ \E p \in Procs : h'[p].n = Received + 1 /\ h'[p].op = op /\ h'[p].id = id

\* The argument of the request this step receives.
NewArg ==
    IF last'.n = Received + 1 THEN last'.arg
    ELSE h'[CHOOSE p \in Procs : h'[p].n = Received + 1].arg

\* This step answers the new request at once.
AnsweredAtOnce(status) == last'.n = Received + 1 /\ last'.status = status

\* This step produces the response of a request op.
Responds(op) == last'.n # last.n /\ last'.op = op

\* The operations sent to item id so far.
SentOps(id) == {sent[id][k].op : k \in 1..Len(sent[id])}

StockOps == {"add_purchase", "add_usage", "adjust_quantity"}

\* No request is being handled.
Quiescent == \A p \in Procs : ~InFlight(p)

\* ------------------------------------------------------------------ C1

\* C1: an item created with quantity >= 0 to which only usage requests with
\* qty >= 0 are sent has quantity >= 0 in every reachable state, whatever the
\* interleaving of the usage requests.
C1_UsageNeverNegative ==
    \A id \in DOMAIN items :
        ( /\ created[id].doc.quantity >= 0
          /\ \A k \in 1..Len(sent[id]) :
                sent[id][k].op = "add_usage" /\ sent[id][k].arg.qty >= 0 )
        => items[id].quantity >= 0

\* ------------------------------------------------------------------ C2

\* C2: a usage request with qty <= the current quantity of an existing item, with
\* no other request interleaved, succeeds; its response is the item as read with
\* quantity - qty, used + qty and one record [date, qty] appended to usageHistory,
\* everything else unchanged, and that is the stored item.
C2_UsageEffect ==
    [][ /\ \A id \in DOMAIN items :
              ( /\ NewRequest("add_usage", id)
                /\ NewArg.qty <= items[id].quantity )
              => ~AnsweredAtOnce(400) /\ ~AnsweredAtOnce(404)
        /\ Responds("add_usage") /\ last'.item # None
              /\ last'.arg.qty <= last'.item[1].quantity
           => LET pre == last'.item[1]
                  qty == last'.arg.qty
                  post == last'.resp
              IN /\ last'.status = 200
                 /\ post.quantity = pre.quantity - qty
                 /\ post.used = pre.used + qty
                 /\ post.usageHistory = pre.usageHistory \o <<[date |-> Today, qty |-> qty]>>
                 /\ post.purchases = pre.purchases
                 /\ post.name = pre.name /\ post.min = pre.min
                 /\ post.source = pre.source
                 /\ post.id = pre.id /\ post.residentId = pre.residentId
                 /\ items'[last'.id] = post
      ]_vars

C2_Witness ==
    /\ serial
    /\ last.op = "add_usage" /\ last.status = 200
    /\ last.arg.qty = 1 /\ last.item[1].quantity = 1
    /\ last.resp.quantity = 0 /\ last.resp.used = 1
    /\ Len(last.resp.usageHistory) = 1

\* ------------------------------------------------------------------ C3

\* C3: a usage request whose qty exceeds the item's current quantity is answered
\* 400 in the step that reads the item, and that step changes no stored document.
C3_InsufficientRejected ==
    [][ \A id \in DOMAIN items :
           ( /\ NewRequest("add_usage", id)
             /\ NewArg.qty > items[id].quantity )
           => /\ AnsweredAtOnce(400)
              /\ items' = items
              /\ residents' = residents
      ]_vars

C3_Witness ==
    /\ last.op = "add_usage" /\ last.status = 400
    /\ last.arg.qty > last.item[1].quantity
    /\ last.id \in DOMAIN items
    /\ items[last.id] = last.item[1]

\* ------------------------------------------------------------------ C4

\* C4: a purchase request (qty, price) on an existing item, with no other request
\* interleaved, succeeds; its response is the item as read with quantity + qty and
\* one record [date, qty, price] appended to purchases, used and usageHistory (and
\* the other fields) unchanged, and that is the stored item.
C4_PurchaseEffect ==
    [][ Responds("add_purchase") /\ last'.item # None
        => LET pre == last'.item[1]
               b == last'.arg
               post == last'.resp
           IN /\ last'.status = 200
              /\ post.quantity = pre.quantity + b.qty
              /\ post.purchases =
                    pre.purchases \o <<[date |-> Today, qty |-> b.qty, price |-> b.price]>>
              /\ post.used = pre.used
              /\ post.usageHistory = pre.usageHistory
              /\ post.name = pre.name /\ post.min = pre.min
              /\ post.source = pre.source
              /\ post.id = pre.id /\ post.residentId = pre.residentId
              /\ items'[last'.id] = post
      ]_vars

C4_Witness ==
    /\ serial
    /\ last.op = "add_purchase" /\ last.status = 200
    /\ last.arg.qty = 1 /\ last.arg.price = 100
    /\ last.resp.quantity = last.item[1].quantity + 1
    /\ Len(last.resp.purchases) = Len(last.item[1].purchases) + 1
    /\ Len(last.item[1].purchases) = 1

\* ------------------------------------------------------------------ C5

\* C5: an adjust-quantity request with delta on an existing item, with no other
\* request interleaved, never fails and sets quantity to max(0, quantity + delta),
\* leaving used, purchases and usageHistory unchanged; and two adjustments in a
\* row, d1 then d2, neither clamped, yield quantity + d1 + d2.
C5_AdjustEffect ==
    [][ /\ Responds("adjust_quantity") /\ last'.item # None
           => LET pre == last'.item[1]
                  delta == last'.arg.delta
                  post == last'.resp
              IN /\ last'.status = 200
                 /\ post.quantity = (IF pre.quantity + delta < 0 THEN 0
                                     ELSE pre.quantity + delta)
                 /\ post.used = pre.used
                 /\ post.purchases = pre.purchases
                 /\ post.usageHistory = pre.usageHistory
                 /\ items'[last'.id] = post
        /\ ( /\ last.op = "adjust_quantity" /\ last.status = 200
             /\ Responds("adjust_quantity") /\ last'.item # None
             /\ last'.id = last.id
             /\ last.item[1].quantity + last.arg.delta >= 0
             /\ last.item[1].quantity + last.arg.delta + last'.arg.delta >= 0 )
           => /\ last'.status = 200
              /\ last'.resp.quantity =
                    last.item[1].quantity + last.arg.delta + last'.arg.delta
      ]_vars

C5_Witness ==
    /\ serial
    /\ last.op = "adjust_quantity" /\ last.status = 200
    /\ last.item[1].quantity + last.arg.delta < 0
    /\ last.resp.quantity = 0
    /\ items[last.id].quantity = 0

\* ------------------------------------------------------------------ C6

\* A request handled alone, as a change of quantity.
Alone(q, r) ==
    CASE r.op = "add_purchase" -> q + r.arg.qty
      [] r.op = "add_usage" -> IF q < r.arg.qty THEN q ELSE q - r.arg.qty
      [] r.op = "adjust_quantity" -> IF q + r.arg.delta < 0 THEN 0 ELSE q + r.arg.delta

\* The quantities that the requests reqs[k], k in S, handled one at a time in some
\* order, lead to from q.
RECURSIVE OneAtATime(_, _, _)
OneAtATime(q, reqs, S) ==
    IF S = {} THEN {q}
    ELSE UNION { OneAtATime(Alone(q, reqs[k]), reqs, S \ {k}) : k \in S }

\* C6: once the purchase, usage and adjust-quantity requests on an item are all
\* answered, its quantity is one that handling those requests one at a time, in
\* some order, produces from the quantity it was created with.
C6_Serializable ==
    \A id \in DOMAIN items :
        (Quiescent /\ SentOps(id) \subseteq StockOps)
        => items[id].quantity \in
              OneAtATime(created[id].doc.quantity, sent[id], 1..Len(sent[id]))

\* ------------------------------------------------------------------ C7

\* C7: when a delete-resident request for R is answered 200, R is not in
\* residents and no item with residentId = R is in items, also for items created
\* for R between the request's two storage calls; neither of its storage calls
\* touches an item of another resident.
C7_CascadeComplete ==
    [][ /\ Responds("delete_resident") /\ last'.status = 200
           => /\ last'.id \notin DOMAIN residents'
              /\ \A i \in DOMAIN items' : items'[i].residentId # last'.id
              /\ \A i \in DOMAIN items :
                    items[i].residentId # last'.id
                    => i \in DOMAIN items' /\ items'[i] = items[i]
        /\ \A r \in RequestedResidentIds :
              NewRequest("delete_resident", r) => items' = items
      ]_vars

\* A delete of R is answered 200 after an item for R arrived during it and was
\* deleted with the rest, while an item of another resident is still stored.
C7_Witness ==
    /\ last.op = "delete_resident" /\ last.status = 200
    /\ \E i \in DOMAIN created :
          /\ created[i].n > last.n
          /\ created[i].doc.residentId = last.id
          /\ i \notin DOMAIN items
    /\ \E j \in DOMAIN items : items[j].residentId # last.id

\* ------------------------------------------------------------------ C8

ResidentIdOps == {"update_resident", "delete_resident"}
ItemIdOps == {"update_item", "delete_item", "add_purchase", "add_usage",
              "adjust_quantity"}

\* C8: a request addressed to an id absent from its collection is answered 404 in
\* its first step and leaves both collections as they were; an id once deleted
\* stays absent, so a second delete of it is answered 404 too.
C8_AbsentIsNotFound ==
    [][ /\ \A op \in ResidentIdOps, r \in RequestedResidentIds :
              (NewRequest(op, r) /\ r \notin DOMAIN residents)
              => AnsweredAtOnce(404) /\ items' = items /\ residents' = residents
        /\ \A op \in ItemIdOps, i \in ItemIds :
              (NewRequest(op, i) /\ i \notin DOMAIN items)
              => AnsweredAtOnce(404) /\ items' = items /\ residents' = residents
        /\ \A i \in DOMAIN created : i \notin DOMAIN items => i \notin DOMAIN items'
      ]_vars

\* A delete of a resident that does not exist is answered 404 while items naming
\* that resident are stored, and they stay.
C8_Witness ==
    /\ last.op = "delete_resident" /\ last.status = 404
    /\ \E i \in DOMAIN items : items[i].residentId = last.id
    /\ \E j \in DOMAIN created : j \notin DOMAIN items

\* ------------------------------------------------------------------ C9

\* C9: the update_one of an item update sets each of name, quantity, used, min and
\* source that the request provides and leaves the fields it does not provide, and
\* id, residentId, purchases and usageHistory, as they were; the other two steps of
\* an update request change no item.
C9_PartialUpdate ==
    [][ \A p \in Procs :
           (h[p].op = "update_item" /\ h'[p] # h[p])
           => IF h[p].pc = "update" /\ h[p].id \in DOMAIN items
              THEN LET upd == h[p].arg
                       old == items[h[p].id]
                       new == items'[h[p].id]
                   IN /\ DOMAIN items' = DOMAIN items
                      /\ \A i \in DOMAIN items \ {h[p].id} : items'[i] = items[i]
                      /\ new.name = (IF upd.name = None THEN old.name ELSE upd.name[1])
                      /\ new.quantity =
                            (IF upd.quantity = None THEN old.quantity ELSE upd.quantity[1])
                      /\ new.used = (IF upd.used = None THEN old.used ELSE upd.used[1])
                      /\ new.min = (IF upd.min = None THEN old.min ELSE upd.min[1])
                      /\ new.source =
                            (IF upd.source = None THEN old.source ELSE upd.source[1])
                      /\ new.id = old.id /\ new.residentId = old.residentId
                      /\ new.purchases = old.purchases
                      /\ new.usageHistory = old.usageHistory
              ELSE items' = items
      ]_vars

\* An update providing quantity 0 and used 1 is applied to an item holding
\* quantity 1 with a purchase recorded: name, min and purchases are kept.
C9_Witness ==
    /\ last.op = "update_item" /\ last.status = 200
    /\ last.arg.quantity = Some(0) /\ last.arg.name = None
    /\ last.item[1].quantity # 0
    /\ last.resp.quantity = 0 /\ last.resp.used = 1
    /\ last.resp.name = last.item[1].name
    /\ Len(last.resp.purchases) = 1

\* ------------------------------------------------------------------ C10

\* C10: an item created with quantity >= 0 and used >= 0 keeps quantity >= 0 and
\* used >= 0 under purchase, usage and adjust-quantity requests with any integer
\* arguments, also when they are handled one at a time.
C10_NonNegative ==
    \A id \in DOMAIN items :
        ( /\ created[id].doc.quantity >= 0 /\ created[id].doc.used >= 0
          /\ SentOps(id) \subseteq StockOps )
        => items[id].quantity >= 0 /\ items[id].used >= 0

\* ------------------------------------------------------------------ C11

\* The requests op sent to item id so far.
SentCount(id, op) == Cardinality({k \in 1..Len(sent[id]) : sent[id][k].op = op})

\* Slot p runs its update_one in this step, as request op on item i.
Updates(p, op, i) ==
    /\ h[p].op = op /\ h[p].pc = "update" /\ h[p].id = i
    /\ h'[p].pc = "reread"

\* C11: in every step, for an item stored before and after it, purchases either
\* stays as it was or gets one record appended, by a purchase request's update_one
\* and carrying that request's qty and price; usageHistory either stays or gets one
\* record appended, by the update_one of a usage request that passed the stock
\* check; and neither list ever holds more records than requests of its kind were
\* sent to the item.
C11_AppendOnly ==
    [][ \A i \in DOMAIN items \cap DOMAIN items' :
           /\ \/ items'[i].purchases = items[i].purchases
              \/ \E p \in Procs :
                    /\ Updates(p, "add_purchase", i)
                    /\ items'[i].purchases =
                          items[i].purchases \o
                          <<[date |-> Today, qty |-> h[p].arg.qty, price |-> h[p].arg.price]>>
           /\ \/ items'[i].usageHistory = items[i].usageHistory
              \/ \E p \in Procs :
                    /\ Updates(p, "add_usage", i)
                    /\ h[p].item[1].quantity >= h[p].arg.qty
                    /\ items'[i].usageHistory =
                          items[i].usageHistory \o <<[date |-> Today, qty |-> h[p].arg.qty]>>
           /\ Len(items'[i].purchases) <= SentCount(i, "add_purchase")'
           /\ Len(items'[i].usageHistory) <= SentCount(i, "add_usage")'
      ]_vars

\* An item holds two different purchase records while a purchase request on it is
\* still being handled.
C11_Witness ==
    \E i \in DOMAIN items :
        /\ Len(items[i].purchases) = 2
        /\ items[i].purchases[1] # items[i].purchases[2]
        /\ \E p \in Procs : InFlight(p) /\ h[p].id = i /\ h[p].op = "add_purchase"

\* ------------------------------------------------------------------ C12

\* The outcomes a request op may end in.
Recognised(op) == IF op = "add_usage" THEN {200, 404, 400} ELSE {200, 404}

RereadingOps == {"update_item", "add_purchase", "add_usage", "adjust_quantity",
                 "update_resident"}

\* C12: every update, purchase, usage and adjust-quantity request on an item, and
\* every update of a resident, is answered with the updated document, with 404 or
\* (usage) with the 400 of insufficient stock, also when a delete of the item or of
\* its resident runs between the request's first find_one and its last.
C12_RecognisedOutcome ==
    last.op \in RereadingOps => last.status \in Recognised(last.op)

\* ------------------------------------------------------------------ C13

\* The sum of qty over the records of a history list.
RECURSIVE SumQty(_)
SumQty(recs) == IF recs = <<>> THEN 0 ELSE recs[1].qty + SumQty(Tail(recs))

\* C13: in every reachable state, an item to which only purchase and usage
\* requests were sent has quantity = its quantity at creation + the qty of its
\* purchases - the qty of its usageHistory, and used = its used at creation + the
\* qty of its usageHistory, however those requests interleave.
C13_Conservation ==
    \A id \in DOMAIN items :
        SentOps(id) \subseteq {"add_purchase", "add_usage"}
        => /\ items[id].quantity =
                 created[id].doc.quantity + SumQty(items[id].purchases)
                 - SumQty(items[id].usageHistory)
           /\ items[id].used = created[id].doc.used + SumQty(items[id].usageHistory)

\* A purchase and a usage were both applied to an item while both requests were
\* still being handled.
C13_Witness ==
    \E id \in DOMAIN items :
        /\ SentOps(id) = {"add_purchase", "add_usage"}
        /\ Len(items[id].purchases) = 1 /\ Len(items[id].usageHistory) = 1
        /\ items[id].usageHistory[1].qty = 1
        /\ \A p \in Procs : h[p].id = id /\ h[p].pc = "reread"

\* ------------------------------------------------------------------ C14

\* Slot p holds, after this step, the delete of resident r between its delete_one
\* and its delete_many.
Cascading(p, r) == h'[p].op = "delete_resident" /\ h'[p].pc = "cascade" /\ h'[p].id = r

\* C14: a delete is decided by its delete_one.  A delete request that finds its id
\* stored removes it and succeeds (an item delete is answered 200 at once, a
\* resident delete goes on to its delete_many); one that does not is answered 404
\* and removes nothing; an id once removed stays removed, so of several deletes of
\* one id exactly the first succeeds.  At most one request at a time is between
\* the delete_one and the delete_many of a resident, a resident delete is answered
\* 200 only by that request, and items leave the collection only in a step that
\* answers a delete with 200.
C14_OneDeleteWins ==
    [][ /\ \A i \in ItemIds :
              NewRequest("delete_item", i)
              => IF i \in DOMAIN items
                 THEN AnsweredAtOnce(200) /\ i \notin DOMAIN items'
                 ELSE AnsweredAtOnce(404) /\ items' = items
        /\ \A r \in RequestedResidentIds :
              NewRequest("delete_resident", r)
              => IF r \in DOMAIN residents
                 THEN /\ r \notin DOMAIN residents'
                      /\ \E p \in Procs : h'[p].n = Received + 1 /\ Cascading(p, r)
                 ELSE /\ AnsweredAtOnce(404)
                      /\ residents' = residents /\ items' = items
                      /\ \A p \in Procs : Cascading(p, r) => h[p] = h'[p]
        /\ \A i \in DOMAIN created : i \notin DOMAIN items => i \notin DOMAIN items'
        /\ \A r \in 1..nextRid : r \notin DOMAIN residents => r \notin DOMAIN residents'
        /\ \A p, q \in Procs, r \in RequestedResidentIds :
              Cascading(p, r) /\ Cascading(q, r) => p = q
        /\ Responds("delete_resident") /\ last'.status = 200
           => \E p \in Procs : h[p].pc = "cascade" /\ h[p].n = last'.n /\ ~InFlight(p)'
        /\ DOMAIN items' # DOMAIN items /\ DOMAIN items' \subseteq DOMAIN items
           => (Responds("delete_item") \/ Responds("delete_resident")) /\ last'.status = 200
      ]_vars

\* A second delete of resident R is answered 404 while the first, which removed R,
\* has its delete_many still to run.
C14_Witness ==
    /\ last.op = "delete_resident" /\ last.status = 404
    /\ \E p \in Procs :
          /\ h[p].op = "delete_resident" /\ h[p].pc = "cascade"
          /\ h[p].id = last.id /\ h[p].n < last.n

====
